---- MODULE Spec2Model ----
(***************************************************************************)
(* Model of Prepare_dataset.py (prepare_dataset_v4): the optional-component*)
(* registry, the text helpers, the curation pipeline and main().           *)
(*                                                                         *)
(* A text is a sequence of characters.  Each character of the model stands *)
(* for one class of code points that the regular expressions of            *)
(* normalize_arabic and str.split / str.strip tell apart:                  *)
(*   "b" "k"  ordinary letters (U+0628, U+0643)                            *)
(*   "F"      a diacritic of U+064B..U+0652 (fatha)                        *)
(*   "A"      alef U+0627          "E"  alef with hamza (one of U+0623,    *)
(*                                      U+0625, U+0622)                    *)
(*   "Y"      yeh U+064A           "M"  alef maqsura U+0649                *)
(*   "I"      yeh with hamza U+0626                                        *)
(*   "W"      waw U+0648           "U"  waw with hamza U+0624              *)
(*   "H"      heh U+0647           "T"  teh marbuta U+0629                 *)
(*   "SP"     the space U+0020     "TAB" another white space (U+0009)      *)
(*   "EMSP"   U+2003, white space inside the range U+2000..U+206F          *)
(*   "ELL"    U+2026, a non-space code point of the range U+2000..U+206F   *)
(* Floats are kept exact: a ratio is a pair <<numerator, denominator>>.    *)
(***************************************************************************)
EXTENDS Integers, Sequences, FiniteSets, TLC

VARIABLES
    \* one call of normalize_arabic followed by a second one on its result
    n_in, n_out, n_pc,
    \* one call of embedding_based_augment
    a_text, a_pool, a_emb, a_env, a_res, a_pc,
    \* one call of init_optional_components on the fresh registry
    i_env, i_res, i_pc,
    \* the process running main(): what the corpus files hold, the position
    \* in main, the registry OPTIONALS, the module flag
    \* TRANSFORMERS_LM_AVAILABLE, raw_data, the list curate_pipeline builds and
    \* its loop index, the messages logged at ERROR level, the exit status
    corpus, pc, OPTIONALS, lm_available, raw_data, final_list, idx, errors, exit_status,
    \* what the language model answers for a text, as far as it was asked
    lm_answers,
    \* the process is run twice on the same corpus and the same components:
    \* the run number, the components of the first run and its curated list
    run, fixed, first_curated

nvars == <<n_in, n_out, n_pc>>

avars == <<a_text, a_pool, a_emb, a_env, a_res, a_pc>>

ivars == <<i_env, i_res, i_pc>>

mvars == <<corpus, pc, OPTIONALS, lm_available, raw_data, final_list, idx, errors,
           exit_status, lm_answers, run, fixed, first_curated>>

vars == <<nvars, avars, ivars, mvars>>

\* the parts of the state a specification does not use stay idle
NormIdle == n_in = <<>> /\ n_out = <<>> /\ n_pc = "idle"

AugIdle ==
    /\ a_text = <<>> /\ a_pool = <<>> /\ a_emb = <<>> /\ a_env = <<>>
    /\ a_res = <<>> /\ a_pc = "idle"

RegistryIdle == i_env = <<>> /\ i_res = <<>> /\ i_pc = "idle"

MainIdle ==
    /\ corpus = <<>> /\ pc = "idle" /\ OPTIONALS = <<>> /\ lm_available = FALSE
    /\ raw_data = <<>> /\ final_list = <<>> /\ idx = 0 /\ errors = <<>>
    /\ exit_status = <<>> /\ lm_answers = <<>> /\ run = 0 /\ fixed = <<>>
    /\ first_curated = <<>>

(* ------------------------------ bounds --------------------------------- *)

MaxLen == 3

MaxPool == 2

\* the longest raw_data list
MaxRaw == 2

(* ------------------------------ characters ----------------------------- *)

\* None passed where a str is expected
NoneText == <<"None">>

Diacritics == {"F"}

AlefForms == {"E", "A"}

GeneralPunct == {"EMSP", "ELL"}

\* what \s matches and what str.split / str.strip treat as white space
WhiteSpace == {"SP", "TAB", "EMSP"}

Chars == {"b", "F", "A", "E", "Y", "M", "I", "W", "U", "H", "T", "SP", "TAB", "EMSP", "ELL"}

(* ------------------------------ re.sub / str helpers ------------------- *)

\* re.sub('[set]', '', text)
DeleteChars(text, set) == SelectSeq(text, LAMBDA c : c \notin set)

\* re.sub('[set]', to, text) for a single replacement character
MapChars(text, set, to) == [i \in 1..Len(text) |-> IF text[i] \in set THEN to ELSE text[i]]

\* re.sub('[set]+', to, text): every maximal run becomes one character
ReplaceRuns(text, set, to) ==
    LET marked == [i \in 1..Len(text) |->
                     IF text[i] \notin set THEN text[i]
                     ELSE IF i > 1 /\ text[i-1] \in set THEN "DROP" ELSE to]
    IN SelectSeq(marked, LAMBDA c : c # "DROP")

\* str.lstrip()
RECURSIVE LStrip(_)
LStrip(text) ==
    IF text = <<>> \/ Head(text) \notin WhiteSpace THEN text ELSE LStrip(Tail(text))

\* str.rstrip()
RECURSIVE RStrip(_)
RStrip(text) ==
    IF text = <<>> \/ text[Len(text)] \notin WhiteSpace THEN text
    ELSE RStrip(SubSeq(text, 1, Len(text) - 1))

\* str.strip()
Strip(text) == RStrip(LStrip(text))

\* first positions of the words of str.split()
WordStarts(text) ==
    {i \in 1..Len(text) : text[i] \notin WhiteSpace /\ (i = 1 \/ text[i-1] \in WhiteSpace)}

\* len(text.split())
WordCount(text) == Cardinality(WordStarts(text))

\* set(text.split())
WordSet(text) ==
    {SubSeq(text, i, CHOOSE j \in i..Len(text) :
                        /\ \A k \in i..j : text[k] \notin WhiteSpace
                        /\ (j = Len(text) \/ text[j+1] \in WhiteSpace)) : i \in WordStarts(text)}

(* ------------------------------ normalize_arabic ----------------------- *)

\* a normaliser that collapses white space before it replaces punctuation
normalize_arabic_swapped(text) ==
    IF text = NoneText \/ text = <<>> THEN <<>>
    ELSE LET t1 == DeleteChars(text, Diacritics)
             t2 == MapChars(t1, AlefForms, "A")
             t3 == MapChars(t2, {"M"}, "Y")
             t4 == MapChars(t3, {"U"}, "W")
             t5 == MapChars(t4, {"I"}, "Y")
             t6 == MapChars(t5, {"T"}, "H")
             t7 == Strip(ReplaceRuns(t6, WhiteSpace, "SP"))
         IN ReplaceRuns(t7, GeneralPunct, "SP")

normalize_arabic(text) ==
    IF text = NoneText \/ text = <<>> THEN <<>>
    ELSE LET t1 == DeleteChars(text, Diacritics)
             t2 == MapChars(t1, AlefForms, "A")
             t3 == MapChars(t2, {"M"}, "Y")
             t4 == MapChars(t3, {"U"}, "W")
             t5 == MapChars(t4, {"I"}, "Y")
             t6 == MapChars(t5, {"T"}, "H")
             t7 == ReplaceRuns(t6, GeneralPunct, "SP")
         IN Strip(ReplaceRuns(t7, WhiteSpace, "SP"))

(* ------------------------------ normalisation runs --------------------- *)

\* the texts of n characters
TextsOfLen(n) == [1..n -> Chars]

NormInit ==
    /\ \/ n_in = NoneText
       \/ \E n \in 0..MaxLen : n_in \in TextsOfLen(n)
    /\ n_out = <<>>
    /\ n_pc = "call"
    /\ AugIdle /\ RegistryIdle /\ MainIdle

\* t = normalize_arabic(x)
NormalizeOnce ==
    /\ n_pc = "call"
    /\ n_out' = normalize_arabic(n_in)
    /\ n_pc' = "once"
    /\ UNCHANGED <<n_in, avars, ivars, mvars>>

\* t = normalize_arabic(t)
NormalizeAgain ==
    /\ n_pc = "once"
    /\ n_out' = normalize_arabic(n_out)
    /\ n_pc' = "twice"
    /\ UNCHANGED <<n_in, avars, ivars, mvars>>

NormNext == NormalizeOnce \/ NormalizeAgain

SpecNorm == NormInit /\ [][NormNext]_vars

\* C10: normalize_arabic(normalize_arabic(t)) = normalize_arabic(t) for every
\* text t, and an empty or missing text normalises to the empty string.
NormalizeIdempotent ==
    /\ n_pc = "twice" => n_out = normalize_arabic(n_in)
    /\ (n_pc = "once" /\ (n_in = NoneText \/ n_in = <<>>)) => n_out = <<>>

\* a text that the first pass changes has been normalised twice
NormalizeIdempotentWitness ==
    /\ n_pc = "twice"
    /\ n_in = <<"E", "ELL", "SP">>
    /\ n_out = <<"A">>

(* ------------------------------ embedding_based_augment ---------------- *)

\* EMBEDDING_AUGMENT_SIM_THRESHOLD = 0.75
EMBEDDING_AUGMENT_SIM_THRESHOLD == <<3, 4>>

Dot(u, v) == u[1] * v[1] + u[2] * v[2]

\* the square of np.linalg.norm
NormSq(u) == Dot(u, u)

Sign(x) == IF x > 0 THEN 1 ELSE IF x < 0 THEN -1 ELSE 0

\* sims[i] > sims[j], where sims[i] = d_i / (|p_i| * |base| + 1e-9).  For the
\* integer vectors of the model a non-zero difference of the cosines decides
\* (1e-9 is far below it); between equal cosines the 1e-9 of the denominator
\* makes the larger dot product the larger quotient.
SimGreater(pi, pj, base) ==
    LET di == Dot(pi, base)
        dj == Dot(pj, base)
        x2 == di * di * NormSq(pj)
        y2 == dj * dj * NormSq(pi)
        sx == IF NormSq(pj) = 0 THEN 0 ELSE Sign(di)
        sy == IF NormSq(pi) = 0 THEN 0 ELSE Sign(dj)
        main == IF sx # sy THEN Sign(sx - sy)
                ELSE IF sx > 0 THEN Sign(x2 - y2)
                ELSE IF sx < 0 THEN Sign(y2 - x2)
                ELSE 0
    IN IF main # 0 THEN main > 0 ELSE di > dj

\* sims[i] >= EMBEDDING_AUGMENT_SIM_THRESHOLD: with the 1e-9 added to the
\* denominator, d / (n + 1e-9) >= 3/4 holds exactly when d > 0 and
\* 16 d^2 > 9 n^2 (both sides are integers here).
SimAtLeastThreshold(p, base) ==
    LET d == Dot(p, base)
        num == EMBEDDING_AUGMENT_SIM_THRESHOLD[1]
        den == EMBEDDING_AUGMENT_SIM_THRESHOLD[2]
    IN d > 0 /\ den * den * d * d > num * num * NormSq(p) * NormSq(base)

\* int(np.argmax(sims)): the first index holding the maximum
ArgMax(embs, base) ==
    CHOOSE i \in 1..Len(embs) :
        /\ \A j \in 1..Len(embs) : ~SimGreater(embs[j], embs[i], base)
        /\ \A j \in 1..(i - 1) : SimGreater(embs[i], embs[j], base)

\* the function without the test pool_texts[best_idx] != text
embedding_based_augment_same(text, pool_texts, env, emb) ==
    IF ~env.available THEN [value |-> NoneText, raised |-> FALSE]
    ELSE IF env.model # "ok" \/ pool_texts = <<>>
         THEN [value |-> NoneText, raised |-> FALSE]
    ELSE LET base_emb == emb[text]
             pool_embs == [i \in 1..Len(pool_texts) |-> emb[pool_texts[i]]]
             best_idx == ArgMax(pool_embs, base_emb)
         IN IF SimAtLeastThreshold(pool_embs[best_idx], base_emb)
            THEN [value |-> pool_texts[best_idx], raised |-> FALSE]
            ELSE [value |-> NoneText, raised |-> FALSE]

\* env.available: SENTECE_EMBEDDINGS_AVAILABLE and np; env.model: the model
\* argument is None ("None"), an encoder whose encode raises ("raises") or one
\* that answers ("ok"); emb: what encode answers.  model.encode on None, a
\* raising encoder and np.argmax of an empty pool all end in the except branch.
embedding_based_augment(text, pool_texts, env, emb) ==
    IF ~env.available THEN [value |-> NoneText, raised |-> FALSE]
    ELSE IF env.model # "ok" \/ pool_texts = <<>>
         THEN [value |-> NoneText, raised |-> FALSE]
    ELSE LET base_emb == emb[text]
             pool_embs == [i \in 1..Len(pool_texts) |-> emb[pool_texts[i]]]
             best_idx == ArgMax(pool_embs, base_emb)
         IN IF /\ SimAtLeastThreshold(pool_embs[best_idx], base_emb)
               /\ pool_texts[best_idx] # text
            THEN [value |-> pool_texts[best_idx], raised |-> FALSE]
            ELSE [value |-> NoneText, raised |-> FALSE]

(* ------------------------------ augmentation runs ---------------------- *)

AugTexts == {<<"b">>, <<"k">>, <<"b", "SP", "k">>}

Vectors == {<<0, 0>>, <<1, 0>>, <<1, 1>>, <<3, 1>>, <<-1, 0>>}

RECURSIVE PoolsOfLen(_)
PoolsOfLen(n) ==
    IF n = 0 THEN {<<>>}
    ELSE {Append(p, t) : p \in PoolsOfLen(n - 1), t \in AugTexts}

AugEnvs == [available : BOOLEAN, model : {"None", "raises", "ok"}]

AugInit ==
    /\ a_text \in AugTexts
    /\ a_pool \in UNION {PoolsOfLen(n) : n \in 0..MaxPool}
    /\ a_emb \in [AugTexts -> Vectors]
    /\ a_env \in AugEnvs
    /\ a_res = [value |-> NoneText, raised |-> FALSE]
    /\ a_pc = "call"
    /\ NormIdle /\ RegistryIdle /\ MainIdle

Augment ==
    /\ a_pc = "call"
    /\ a_res' = embedding_based_augment(a_text, a_pool, a_env, a_emb)
    /\ a_pc' = "done"
    /\ UNCHANGED <<a_text, a_pool, a_emb, a_env, nvars, ivars, mvars>>

AugNext == Augment

SpecAug == AugInit /\ [][AugNext]_vars

\* the cosine of u and v is >= 0.75 (exact, without the 1e-9)
CosineAtLeastThreshold(u, v) ==
    /\ NormSq(u) > 0 /\ NormSq(v) > 0 /\ Dot(u, v) > 0
    /\ 16 * Dot(u, v) * Dot(u, v) >= 9 * NormSq(u) * NormSq(v)

\* C8: embedding_based_augment returns a text only if that text is in the
\* pool, its cosine similarity to the source is >= 0.75 and it differs from
\* the source; with the embedding component unavailable or the encoder
\* raising it returns None; it never raises.
AugmentSound ==
    a_pc = "done" =>
        /\ ~a_res.raised
        /\ a_res.value # NoneText =>
              /\ \E i \in 1..Len(a_pool) :
                    /\ a_pool[i] = a_res.value
                    /\ CosineAtLeastThreshold(a_emb[a_pool[i]], a_emb[a_text])
              /\ a_res.value # a_text
        /\ (~a_env.available \/ a_env.model # "ok") => a_res.value = NoneText

\* a neighbour was accepted although the source text is in the pool too
AugmentSoundWitness ==
    /\ a_pc = "done"
    /\ a_res.value # NoneText
    /\ \E i \in 1..Len(a_pool) : a_pool[i] = a_text

(* ------------------------------ optional components -------------------- *)

\* OPTIONALS = OptionalComponents()
DefaultRegistry ==
    [embedding_model |-> "None", lm_model |-> "None", lm_tokenizer |-> "None",
     use_min_hash |-> FALSE, minhash_lsh |-> "None"]

\* What the process finds when it starts: which optional libraries import,
\* the --lm_model argument, and for every constructor or call of
\* init_optional_components whether it answers or raises.  cuda is "absent"
\* when torch.cuda.is_available() is false, else how lm_model.to('cuda') ends.
Envs ==
    [SENTECE_EMBEDDINGS_AVAILABLE : BOOLEAN,
     DATASKETCH_AVAILABLE : BOOLEAN,
     TRANSFORMERS_LM_AVAILABLE : BOOLEAN,
     lm_model_name : {"None", "aragpt2-base"},
     SentenceTransformer : {"ok", "raises"},
     AutoTokenizer : {"ok", "raises"},
     AutoModelForCausalLM : {"ok", "raises"},
     cuda : {"absent", "ok", "raises"},
     MinHashLSH : {"ok", "raises"}]

\* first block: the sentence-transformers model
InitEmbedding(reg, env) ==
    IF env.SENTECE_EMBEDDINGS_AVAILABLE /\ env.SentenceTransformer = "ok"
    THEN [reg |-> [reg EXCEPT !.embedding_model = "SentenceTransformer"], raised |-> FALSE]
    ELSE [reg |-> reg, raised |-> FALSE]

\* second block: tokenizer, model, eval() and the move to cuda in one try
InitLM(reg, env) ==
    IF env.lm_model_name # "None" /\ env.TRANSFORMERS_LM_AVAILABLE
    THEN IF env.AutoTokenizer = "raises" THEN [reg |-> reg, raised |-> FALSE]
         ELSE LET r1 == [reg EXCEPT !.lm_tokenizer = "AutoTokenizer"]
              IN IF env.AutoModelForCausalLM = "raises" THEN [reg |-> r1, raised |-> FALSE]
                 ELSE LET r2 == [r1 EXCEPT !.lm_model = "AutoModelForCausalLM"]
                      IN IF env.cuda = "raises"
                         \* lm_model.to('cuda') raised: the except branch only logs
                         THEN [reg |-> r2, raised |-> FALSE]
                         ELSE [reg |-> r2, raised |-> FALSE]
    ELSE [reg |-> reg, raised |-> FALSE]

\* the third block without the assignment of the except branch
InitMinHashKeepsFlag(reg, env) ==
    IF env.DATASKETCH_AVAILABLE
    THEN LET r1 == [reg EXCEPT !.use_min_hash = TRUE]
         IN IF env.MinHashLSH = "raises"
            THEN [reg |-> r1, raised |-> FALSE]
            ELSE [reg |-> [r1 EXCEPT !.minhash_lsh = "MinHashLSH"], raised |-> FALSE]
    ELSE [reg |-> reg, raised |-> FALSE]

\* third block: the MinHashLSH index
InitMinHash(reg, env) ==
    IF env.DATASKETCH_AVAILABLE
    THEN LET r1 == [reg EXCEPT !.use_min_hash = TRUE]
         IN IF env.MinHashLSH = "raises"
            THEN [reg |-> [r1 EXCEPT !.use_min_hash = FALSE], raised |-> FALSE]
            ELSE [reg |-> [r1 EXCEPT !.minhash_lsh = "MinHashLSH"], raised |-> FALSE]
    ELSE [reg |-> reg, raised |-> FALSE]

\* the registry after the call, and whether an exception left the function
init_optional_components(reg, env) ==
    LET e == InitEmbedding(reg, env)
        l == InitLM(e.reg, env)
        m == InitMinHash(l.reg, env)
    IN [reg |-> m.reg, raised |-> e.raised \/ l.raised \/ m.raised]

(* ------------------------------ registry runs -------------------------- *)

RegistryInit ==
    /\ i_env \in Envs
    /\ i_res = [reg |-> DefaultRegistry, raised |-> FALSE]
    /\ i_pc = "call"
    /\ NormIdle /\ AugIdle /\ MainIdle

CallInitOptionalComponents ==
    /\ i_pc = "call"
    /\ i_res' = init_optional_components(i_res.reg, i_env)
    /\ i_pc' = "returned"
    /\ UNCHANGED <<i_env, nvars, avars, mvars>>

RegistryNext == CallInitOptionalComponents

SpecRegistry == RegistryInit /\ [][RegistryNext]_vars

EmbeddingLoadFailed(env) ==
    ~env.SENTECE_EMBEDDINGS_AVAILABLE \/ env.SentenceTransformer = "raises"

LMLoadFailed(env) ==
    \/ ~env.TRANSFORMERS_LM_AVAILABLE
    \/ env.lm_model_name = "None"
    \/ env.AutoTokenizer = "raises"
    \/ env.AutoModelForCausalLM = "raises"

MinHashLoadFailed(env) ==
    ~env.DATASKETCH_AVAILABLE \/ env.MinHashLSH = "raises"

MIN_WORD_COUNT == 5

MAX_WORD_COUNT == 150

\* DEDUPLICATION_THRESHOLD = 0.88
DEDUPLICATION_THRESHOLD == <<22, 25>>

(* ------------------------------ scoring helpers ------------------------ *)

\* r >= s for two ratios with positive denominators
RatioGE(r, s) == r[1] * s[2] >= s[1] * r[2]

jaccard_similarity_sets(a, b) ==
    IF a = {} \/ b = {} THEN <<0, 1>>
    ELSE LET inter == Cardinality(a \cap b)
             union == Cardinality(a \cup b)
         IN IF union # 0 THEN <<inter, union>> ELSE <<0, 1>>

\* 4.71 * (char_count / word_count) + 0.5 * word_count - 21.43, at least 0,
\* as a ratio over 100 * word_count
text_complexity(text) ==
    LET word_count == WordCount(text)
        char_count == Len(DeleteChars(text, {"SP"}))
        num == 471 * char_count + 50 * word_count * word_count - 2143 * word_count
    IN IF word_count = 0 THEN <<0, 1>>
       ELSE IF num < 0 THEN <<0, 1>> ELSE <<num, 100 * word_count>>

\* Optional[float]: None is <<>>, a float v is <<v>>
None == <<>>

\* What the calls inside the try of lm_perplexity_score come to: <<>> when
\* any of them raises, <<v>> when they yield math.exp(loss) = v.
LmRaised == <<>>

Perplexities == {1, 12}

LmAnswers == {LmRaised} \cup {<<v>> : v \in Perplexities}

\* a scorer that records a failed call as 0.0
lm_perplexity_score_zero(flag, reg, answer) ==
    IF ~(flag /\ reg.lm_model # "None") THEN None
    ELSE IF answer = LmRaised THEN <<0>> ELSE answer

\* flag: TRANSFORMERS_LM_AVAILABLE; reg: OPTIONALS; answer: see LmAnswers
lm_perplexity_score(flag, reg, answer) ==
    IF ~(flag /\ reg.lm_model # "None") THEN None
    ELSE IF answer = LmRaised THEN None ELSE answer

\* return 0.5
compute_quality_score(text, complexity, perplexity) == <<1, 2>>

(* ------------------------------ curate_pipeline ------------------------ *)

\* e.get(key, default)
Get(e, key, default) == IF key \in DOMAIN e THEN e[key] ELSE default

\* step 1 with the length filter applied to the raw text
EnrichAndFilterRaw(raw) ==
    LET kept == SelectSeq(raw, LAMBDA e : Strip(Get(e, "text", <<>>)) # <<>>)
        long == SelectSeq(kept, LAMBDA e :
                    /\ MIN_WORD_COUNT <= WordCount(e.text)
                    /\ WordCount(e.text) <= MAX_WORD_COUNT)
    IN [i \in 1..Len(long) |->
           [text |-> normalize_arabic(Get(long[i], "text", <<>>)),
            source |-> Get(long[i], "source", "unknown"),
            is_augmented |-> FALSE]]

\* step 1 of curate_pipeline: the two list comprehensions
EnrichAndFilter(raw) ==
    LET kept == SelectSeq(raw, LAMBDA e : Strip(Get(e, "text", <<>>)) # <<>>)
        enriched == [i \in 1..Len(kept) |->
                        [text |-> normalize_arabic(Get(kept[i], "text", <<>>)),
                         source |-> Get(kept[i], "source", "unknown"),
                         is_augmented |-> FALSE]]
    IN SelectSeq(enriched, LAMBDA e :
           /\ MIN_WORD_COUNT <= WordCount(e.text)
           /\ WordCount(e.text) <= MAX_WORD_COUNT)

\* the four assignments of the metadata loop for one entry
WithMetadata(entry, perplexity) ==
    LET complexity == text_complexity(entry.text)
    IN [text |-> entry.text, source |-> entry.source, is_augmented |-> entry.is_augmented,
        word_count |-> WordCount(entry.text),
        complexity |-> complexity,
        perplexity |-> perplexity,
        quality_score |-> compute_quality_score(entry.text, complexity, perplexity)]

(* ------------------------------ the corpus ----------------------------- *)

\* n times the word "b"
RepeatWord(n) == [i \in 1..(2 * n - 1) |-> IF i % 2 = 1 THEN "b" ELSE "SP"]

\* five words with diacritics, hamza forms and mixed white space
TextRaw ==
    <<"E", "F", "b", "SP", "b", "T", "TAB", "k", "M", "SP", "SP", "U", "k", "EMSP", "I", "b">>

\* the same five words already normalised
TextNorm == <<"A", "b", "SP", "b", "H", "SP", "k", "Y", "SP", "W", "k", "SP", "Y", "b">>

\* five words before normalisation, four after it
TextPunctWord == <<"b", "SP", "k", "SP", "ELL", "SP", "b", "SP", "k">>

TextBlank == <<"SP", "EMSP", "TAB">>

RawEntries ==
    {[text |-> TextRaw, source |-> "articles"],
     [text |-> TextNorm, source |-> "conversations"],
     [text |-> TextPunctWord, source |-> "articles"],
     [text |-> TextBlank, source |-> "conversations"],
     [source |-> "articles"],
     [text |-> RepeatWord(MAX_WORD_COUNT)],
     [text |-> RepeatWord(MAX_WORD_COUNT + 1), source |-> "conversations"]}

RECURSIVE CorporaOfLen(_)
CorporaOfLen(n) ==
    IF n = 0 THEN {<<>>}
    ELSE {Append(c, e) : c \in CorporaOfLen(n - 1), e \in RawEntries}

Corpora == UNION {CorporaOfLen(n) : n \in 0..MaxRaw}

\* The body of build_raw_data_from_paths is elided in the source ("return []"
\* stands for it); it loads the {text, source} records of the corpus files.
build_raw_data_from_paths(files) == files

(* ------------------------------ main ----------------------------------- *)

Init ==
    /\ corpus \in Corpora
    /\ lm_available \in BOOLEAN
    /\ pc = "start"
    /\ OPTIONALS = DefaultRegistry
    /\ raw_data = <<>>
    /\ final_list = <<>>
    /\ idx = 0
    /\ errors = <<>>
    /\ exit_status = None
    /\ lm_answers = {}
    /\ run = 1
    /\ fixed = <<>>
    /\ first_curated = <<>>
    /\ NormIdle /\ AugIdle /\ RegistryIdle

\* init_optional_components(args.embedding_model, args.lm_model)
InitOptionalComponents ==
    /\ pc = "start"
    /\ \E r \in {init_optional_components(OPTIONALS, env) :
                    env \in {e \in Envs : e.TRANSFORMERS_LM_AVAILABLE = lm_available}} :
          /\ fixed = <<>> \/ fixed = <<r.reg>>
          /\ OPTIONALS' = r.reg
          /\ fixed' = <<r.reg>>
          /\ pc' = IF r.raised THEN "crashed" ELSE "ingest"
    /\ UNCHANGED <<corpus, lm_available, raw_data, final_list, idx, errors, exit_status,
                   lm_answers, run, first_curated, nvars, avars, ivars>>

\* raw_data = build_raw_data_from_paths(...); if not raw_data: error, return
BuildRawData ==
    /\ pc = "ingest"
    /\ raw_data' = build_raw_data_from_paths(corpus)
    /\ IF raw_data' = <<>>
       THEN errors' = Append(errors, "No data found. Aborting.") /\ pc' = "aborted"
       ELSE errors' = errors /\ pc' = "curate"
    /\ UNCHANGED <<corpus, OPTIONALS, lm_available, final_list, idx, exit_status,
                   lm_answers, run, fixed, first_curated, nvars, avars, ivars>>

\* all orders of a list
Orders(list) ==
    {[i \in 1..Len(list) |-> list[f[i]]] :
        f \in {g \in [1..Len(list) -> 1..Len(list)] :
                 \A i, j \in 1..Len(list) : g[i] = g[j] => i = j}}

\* step 1 collecting the entries in a set, whose iteration order is not fixed
CurateEnrichUnordered ==
    /\ pc = "curate"
    /\ final_list' \in Orders(EnrichAndFilter(raw_data))
    /\ idx' = 1
    /\ pc' = "metadata"
    /\ UNCHANGED <<corpus, OPTIONALS, lm_available, raw_data, errors, exit_status,
                   lm_answers, run, fixed, first_curated, nvars, avars, ivars>>

\* curate_pipeline(raw_data) up to final_list = enriched
CurateEnrich ==
    /\ pc = "curate"
    /\ final_list' = EnrichAndFilter(raw_data)
    /\ idx' = 1
    /\ pc' = "metadata"
    /\ UNCHANGED <<corpus, OPTIONALS, lm_available, raw_data, errors, exit_status,
                   lm_answers, run, fixed, first_curated, nvars, avars, ivars>>

\* whether lm_perplexity_score gets as far as calling the model
ScorerCalled == lm_available /\ OPTIONALS.lm_model # "None"

\* what the model may answer for text t: what it answered before, if asked
AnswersFor(t) ==
    IF \E p \in lm_answers : p[1] = t
    THEN {p[2] : p \in {q \in lm_answers : q[1] = t}}
    ELSE LmAnswers

\* the loop body giving up the language model after a failed call
AddMetadataDisabling ==
    /\ pc = "metadata"
    /\ idx <= Len(final_list)
    /\ \E answer \in (IF ScorerCalled THEN AnswersFor(final_list[idx].text) ELSE {LmRaised}) :
          /\ final_list' = [final_list EXCEPT ![idx] =
                 WithMetadata(final_list[idx],
                              lm_perplexity_score(lm_available, OPTIONALS, answer))]
          /\ lm_answers' = IF ScorerCalled
                           THEN lm_answers \cup {<<final_list[idx].text, answer>>}
                           ELSE lm_answers
          /\ OPTIONALS' = IF ScorerCalled /\ answer = LmRaised
                          THEN [OPTIONALS EXCEPT !.lm_model = "None"]
                          ELSE OPTIONALS
    /\ idx' = idx + 1
    /\ UNCHANGED <<corpus, pc, lm_available, raw_data, errors, exit_status,
                   run, fixed, first_curated, nvars, avars, ivars>>

\* one iteration of "for entry in final_list"
AddMetadata ==
    /\ pc = "metadata"
    /\ idx <= Len(final_list)
    /\ \E answer \in (IF ScorerCalled THEN AnswersFor(final_list[idx].text) ELSE {LmRaised}) :
          /\ final_list' = [final_list EXCEPT ![idx] =
                 WithMetadata(final_list[idx],
                              lm_perplexity_score(lm_available, OPTIONALS, answer))]
          /\ lm_answers' = IF ScorerCalled
                           THEN lm_answers \cup {<<final_list[idx].text, answer>>}
                           ELSE lm_answers
    /\ idx' = idx + 1
    /\ UNCHANGED <<corpus, pc, OPTIONALS, lm_available, raw_data, errors, exit_status,
                   run, fixed, first_curated, nvars, avars, ivars>>

\* main going on to the split whatever curate_pipeline returned
CurateReturnUnchecked ==
    /\ pc = "metadata"
    /\ idx > Len(final_list)
    /\ errors' = errors /\ pc' = "partition"
    /\ UNCHANGED <<corpus, OPTIONALS, lm_available, raw_data, final_list, idx, exit_status,
                   lm_answers, run, fixed, first_curated, nvars, avars, ivars>>

\* return final_list; if not curated_data: error, return
CurateReturn ==
    /\ pc = "metadata"
    /\ idx > Len(final_list)
    /\ IF final_list = <<>>
       THEN errors' = Append(errors, "No data left after curation. Aborting.")
            /\ pc' = "aborted"
       ELSE errors' = errors /\ pc' = "partition"
    /\ UNCHANGED <<corpus, OPTIONALS, lm_available, raw_data, final_list, idx, exit_status,
                   lm_answers, run, fixed, first_curated, nvars, avars, ivars>>

\* Dataset.from_list and the two train_test_split calls; a call of the
\* datasets library either answers or raises
Partition ==
    /\ pc = "partition"
    /\ \E outcome \in {"ok", "raises"} :
          pc' = IF outcome = "ok" THEN "tokenize" ELSE "crashed"
    /\ UNCHANGED <<corpus, OPTIONALS, lm_available, raw_data, final_list, idx, errors,
                   exit_status, lm_answers, run, fixed, first_curated, nvars, avars, ivars>>

\* PreTrainedTokenizerFast, final_dataset.map, save_to_disk and the last log
TokenizeAndSave ==
    /\ pc = "tokenize"
    /\ \E outcome \in {"ok", "raises"} :
          pc' = IF outcome = "ok" THEN "succeeded" ELSE "crashed"
    /\ UNCHANGED <<corpus, OPTIONALS, lm_available, raw_data, final_list, idx, errors,
                   exit_status, lm_answers, run, fixed, first_curated, nvars, avars, ivars>>

\* The script ends after main(args): status 0 when main returned, by either
\* return statement or at its end, status 1 when an exception left it.
Exit ==
    /\ pc \in {"aborted", "succeeded", "crashed"}
    /\ exit_status = None
    /\ exit_status' = IF pc = "crashed" THEN <<1>> ELSE <<0>>
    /\ UNCHANGED <<corpus, pc, OPTIONALS, lm_available, raw_data, final_list, idx, errors,
                   lm_answers, run, fixed, first_curated, nvars, avars, ivars>>

\* the script is started again on the same files with the same components
Rerun ==
    /\ exit_status # None
    /\ run = 1
    /\ run' = 2
    /\ first_curated' = final_list
    /\ pc' = "start"
    /\ OPTIONALS' = DefaultRegistry
    /\ raw_data' = <<>>
    /\ final_list' = <<>>
    /\ idx' = 0
    /\ errors' = <<>>
    /\ exit_status' = None
    /\ UNCHANGED <<corpus, lm_available, lm_answers, fixed, nvars, avars, ivars>>

Next ==
    \/ InitOptionalComponents
    \/ BuildRawData
    \/ CurateEnrich
    \/ AddMetadata
    \/ CurateReturn
    \/ Partition
    \/ TokenizeAndSave
    \/ Exit
    \/ Rerun

Spec == Init /\ [][Next]_vars

(* ------------------------------ properties of main --------------------- *)

\* curate_pipeline has returned its list to main
Returned ==
    \/ pc \in {"partition", "tokenize", "succeeded", "crashed"}
    \/ pc = "aborted" /\ raw_data # <<>>

TextsOf(list) == [i \in 1..Len(list) |-> list[i].text]

\* C1: an empty raw_data or an empty curated list takes main straight to its
\* abort, with "No data found" for the first and "No data left after
\* curation" for the second, and the split, the tokenization and the success
\* state are only reached with both lists non-empty.
EmptyStageAborts ==
    /\ (pc \notin {"start", "ingest"} /\ raw_data = <<>>) =>
          pc = "aborted" /\ errors = <<"No data found. Aborting.">>
    /\ (Returned /\ final_list = <<>>) =>
          pc = "aborted" /\ errors = <<"No data left after curation. Aborting.">>
    /\ pc \in {"partition", "tokenize", "succeeded"} =>
          raw_data # <<>> /\ final_list # <<>>

\* raw data was found and curation left nothing of it
EmptyStageAbortsWitness ==
    /\ pc = "aborted"
    /\ raw_data # <<>>
    /\ final_list = <<>>
    /\ exit_status # None

\* C2: every record curate_pipeline returns has a non-empty text, a
\* word_count equal to the number of words of the text and within
\* [MIN_WORD_COUNT, MAX_WORD_COUNT], and a quality_score that is defined and
\* not negative.
EmittedRecordsValid ==
    Returned =>
        \A i \in 1..Len(final_list) :
            LET r == final_list[i]
            IN /\ r.text # <<>>
               /\ r.word_count = WordCount(r.text)
               /\ MIN_WORD_COUNT <= r.word_count /\ r.word_count <= MAX_WORD_COUNT
               /\ "quality_score" \in DOMAIN r
               /\ RatioGE(r.quality_score, <<0, 1>>)

\* a text of MAX_WORD_COUNT words and a text of MIN_WORD_COUNT words were
\* kept although the raw list also held a text the filter drops
EmittedRecordsValidWitness ==
    /\ Returned
    /\ Len(raw_data) > Len(final_list)
    /\ \E i \in 1..Len(final_list) : final_list[i].word_count \in {MIN_WORD_COUNT, MAX_WORD_COUNT}
    /\ \E i \in 1..Len(final_list) : final_list[i].perplexity = None

\* the shingles of a text: its words
Shingles(text) == WordSet(text)

\* C3: no two records accepted by the curation pipeline have a shingle-set
\* Jaccard similarity >= DEDUPLICATION_THRESHOLD; two inputs that normalise
\* to the same text collapse to one record.
NoNearDuplicatesAccepted ==
    Returned =>
        \A i, j \in 1..Len(final_list) :
            i < j => ~RatioGE(jaccard_similarity_sets(Shingles(final_list[i].text),
                                                      Shingles(final_list[j].text)),
                              DEDUPLICATION_THRESHOLD)

\* C4: a language model that is unavailable or raises changes neither the
\* number nor the order of the records of curate_pipeline (the metadata loop
\* and what follows it keep the texts of the filtered list as they are), and
\* every record scored without an answer has perplexity None, never 0, and a
\* quality_score.
ScorerFailureIsSoft ==
    /\ [](\A i \in 1..Len(final_list) :
            (/\ pc = "metadata" \/ Returned
             /\ i < idx
             /\ ~ScorerCalled \/ <<final_list[i].text, LmRaised>> \in lm_answers) =>
                /\ final_list[i].perplexity = None
                /\ "quality_score" \in DOMAIN final_list[i]
                /\ RatioGE(final_list[i].quality_score, <<0, 1>>))
    /\ [][(pc = "metadata" \/ Returned) /\ run' = run
              => TextsOf(final_list') = TextsOf(final_list)]_vars

\* the model was loaded, raised for one record and answered for another
ScorerFailureIsSoftWitness ==
    /\ Returned
    /\ ScorerCalled
    /\ \E i, j \in 1..Len(final_list) :
          /\ <<final_list[i].text, LmRaised>> \in lm_answers
          /\ final_list[i].perplexity = None
          /\ final_list[j].perplexity # None

\* C5: a run that aborts because no raw data was found or no data was left
\* after curation ends with a non-zero exit status.
AbortExitsNonZero ==
    (pc = "aborted" /\ exit_status # None) => exit_status # <<0>>

\* C7: after init_optional_components no step of a run changes a field of
\* OPTIONALS.
RegistryReadOnly ==
    [][(pc # "start" /\ run' = run) => OPTIONALS' = OPTIONALS]_vars

\* a run ended in success with a loaded language model that raised on a call
RegistryReadOnlyWitness ==
    /\ pc = "succeeded"
    /\ exit_status # None
    /\ OPTIONALS.lm_model # "None" /\ OPTIONALS.use_min_hash
    /\ \E i \in 1..Len(final_list) : <<final_list[i].text, LmRaised>> \in lm_answers

====
